---- MODULE Spec2Model ----
(***************************************************************************)
(* The interactive VRL tutorial of lib/vrl/cli/src/tutorial.rs: the        *)
(* function tutorial() is one loop ('outer) that reads a line, dispatches  *)
(* it, and, after a correct answer, runs a nested loop ('next) that waits  *)
(* for `next`.  One action per arm of the two `match` statements.          *)
(*                                                                         *)
(* The VRL compiler and runtime, and rustyline's Editor, are not part of   *)
(* this repository: their outcomes are nondeterministic choices.           *)
(***************************************************************************)
EXTENDS Integers, Sequences, FiniteSets, TLC

\* ---- bounds of the model ------------------------------------------------
MaxLen == 2        \* curricula of 1..MaxLen tutorials
MaxValue == 2      \* a vrl::Value is one of 0..MaxValue

\* the widest integer of the model stands for usize::MAX
UsizeMax == 2147483647

Values == 0..MaxValue
\* the names a program can bind
Bindings == {"x"}

\* ---- input --------------------------------------------------------------
Commands == {"", "exit", "quit", "help", "next", "prev", "docs", "cheat"}
Programs == {".a = 1"}
Lines == Commands \cup Programs

\* what readline returned, and in which loop: Ok(line) or a ReadlineError
Ok(loop, line) == [at |-> loop, tag |-> "Ok", line |-> line]
Err(loop, e) == [at |-> loop, tag |-> "Err", line |-> e]
ReadlineErrors == {"Interrupted", "Eof", "Io"}
Unread == [at |-> "", tag |-> "Unread", line |-> ""]

\* one thing written to the terminal (or handed to open_url)
M(kind, args) == [kind |-> kind, args |-> args]

VARIABLES
    index,           \* let mut index
    tutorials,       \* let mut tutorials: index -> Tutorial
    compiler_state,  \* let mut compiler_state
    rt,              \* let mut rt
    added,           \* the lines the last step gave to rl.add_history_entry
    pc,              \* "outer": at readline of 'outer; "next": at readline
                     \* of 'next; "done": returned Ok(()); "panic"
    readline,        \* what the last readline returned
    out,             \* what the last step printed, in order
    calls,           \* the calls of resolve_to_value made by the last step
    left,            \* per tutorial: the event as the last
                     \* resolve_to_value on it left it (as loaded, if none)
    pending          \* tutorials whose event equals the answer with no
                     \* `next` entered since it became so

vars == <<index, tutorials, compiler_state, rt, added, pc, readline, out,
          calls, left, pending>>

\* ---- helpers ------------------------------------------------------------
TutorialsLen == Cardinality(DOMAIN tutorials)

Solved(tuts, j) == tuts[j].initial_event = tuts[j].correct_answer

saturating_add(a, b) == IF a > UsizeMax - b THEN UsizeMax ELSE a + b

\* variant: a plain subtraction
wrapping_sub(a, b) == a - b

saturating_sub(a, b) == IF a < b THEN 0 ELSE a - b

clear_screen == <<M("clear", <<>>)>>

help == <<M("help", <<>>)>>

\* indexing past the end of the Vec panics
print_tutorial_help_text(i, tuts) ==
    IF i \in DOMAIN tuts
    THEN <<M("tutorial", <<i, tuts[i].initial_event>>)>>
    ELSE <<M("panic", <<i>>)>>

AfterPrint(i, tuts) == IF i \in DOMAIN tuts THEN "outer" ELSE "panic"

\* variant: only programs are recorded, commands are not
add_history_entry_programs(line) == IF line \in Commands THEN <<>> ELSE <<line>>

\* rl.add_history_entry(line)
add_history_entry(line) == <<line>>

\* vrl::compile_with_state: a program, or diagnostics; declarations
\* accumulate in the compiler state
compile_with_state(program, state) ==
    { [ok |-> ok, state |-> s] :
        ok \in BOOLEAN, s \in {t \in SUBSET Bindings : state \subseteq t} }

\* Runtime::resolve: works on the target by reference and returns a value
\* or an error; what it did to the target before an error stays, and the
\* variables it set stay in the runtime state
runtime_resolve(object, runtime) ==
    { [ok |-> TRUE, object |-> o, runtime |-> r, value |-> v] :
        o \in Values, r \in {t \in SUBSET Bindings : runtime \subseteq t},
        v \in Values }
    \cup
    { [ok |-> FALSE, object |-> o, runtime |-> r, value |-> 0] :
        o \in Values, r \in {t \in SUBSET Bindings : runtime \subseteq t} }

resolve_to_value(object, runtime, program, state) ==
    LET compiled == compile_with_state(program, state)
    IN  { [res |-> "Err", value |-> 0,
           object |-> object, runtime |-> runtime, state |-> c.state] :
            c \in {d \in compiled : ~d.ok} }
        \cup
        { [res |-> IF r.ok THEN "Ok" ELSE "Err", value |-> r.value,
           object |-> r.object, runtime |-> r.runtime, state |-> c.state] :
            c \in {d \in compiled : d.ok},
            r \in runtime_resolve(object, runtime) }

\* variant: one event is shared by all the tutorials
event_after_shared(tuts, i, o) ==
    [j \in DOMAIN tuts |-> [tuts[j] EXCEPT !.initial_event = o.object]]

\* variant: a failed call works on a copy of the event
event_after_rollback(tuts, i, o) ==
    IF o.res = "Err" THEN tuts ELSE [tuts EXCEPT ![i].initial_event = o.object]

\* resolve_to_value works on `event`, a &mut into tutorials[index]
event_after(tuts, i, o) == [tuts EXCEPT ![i].initial_event = o.object]

\* tutorials nobody has acknowledged with `next` since they became solved
PendingAfter(tuts, enteredNext) ==
    IF enteredNext THEN {}
    ELSE { j \in DOMAIN tuts :
             Solved(tuts, j) /\ (j \in pending \/ ~Solved(tutorials, j)) }

\* ---- initial state: after the intro, before the first readline ---------
\* tutorials.toml: one record per tutorial.  Values only ever meet in
\* `event == correct_answer`, so the answer of tutorial j is fixed to the
\* value j (mod the number of values) and the initial event is any value.
load_tutorials_from_toml ==
    UNION { { [j \in 0..(n - 1) |->
                 [correct_answer |-> j % (MaxValue + 1), initial_event |-> e[j]]] :
              e \in [0..(n - 1) -> Values] } :
            n \in 1..MaxLen }

Init ==
    /\ index = 0
    /\ compiler_state = {}
    /\ rt = {}
    /\ added = <<>>
    /\ tutorials \in load_tutorials_from_toml
    /\ pc = "outer"
    /\ readline = Unread
    /\ out = clear_screen \o <<M("welcome", <<>>)>>
               \o print_tutorial_help_text(0, tutorials)
    /\ calls = <<>>
    /\ left = [j \in DOMAIN tutorials |-> tutorials[j].initial_event]
    /\ pending = {j \in DOMAIN tutorials : Solved(tutorials, j)}

\* ---- the 'outer loop: one action per arm ---------------------------------
\* Ok(line) if line == "exit" || line == "quit" => break 'outer
OuterExit ==
    /\ pc = "outer"
    /\ \E line \in {"exit", "quit"} : readline' = Ok("outer", line)
    /\ pc' = "done"
    /\ out' = <<>>
    /\ calls' = <<>>
    /\ pending' = PendingAfter(tutorials, FALSE)
    /\ added' = <<>>
    /\ UNCHANGED <<index, tutorials, compiler_state, rt, left>>

\* variant: "" => break
OuterEmpty_Breaks ==
    /\ pc = "outer"
    /\ readline' = Ok("outer", "")
    /\ added' = add_history_entry("")
    /\ out' = <<>>
    /\ calls' = <<>>
    /\ pc' = "done"
    /\ pending' = PendingAfter(tutorials, FALSE)
    /\ UNCHANGED <<index, tutorials, compiler_state, rt, left>>

\* "" => continue
OuterEmpty ==
    /\ pc = "outer"
    /\ readline' = Ok("outer", "")
    /\ added' = add_history_entry("")
    /\ out' = <<>>
    /\ calls' = <<>>
    /\ pending' = PendingAfter(tutorials, FALSE)
    /\ UNCHANGED <<index, tutorials, compiler_state, rt, pc, left>>

\* "help" => help()
OuterHelp ==
    /\ pc = "outer"
    /\ readline' = Ok("outer", "help")
    /\ added' = add_history_entry("help")
    /\ out' = help
    /\ calls' = <<>>
    /\ pending' = PendingAfter(tutorials, FALSE)
    /\ UNCHANGED <<index, tutorials, compiler_state, rt, pc, left>>

\* variant: `next` on the last tutorial congratulates only when every
\* tutorial is solved
OuterNext_NoCongrats ==
    /\ pc = "outer"
    /\ readline' = Ok("outer", "next")
    /\ added' = add_history_entry("next")
    /\ IF (index + 1) = TutorialsLen
       THEN /\ out' = clear_screen
                        \o (IF \A j \in DOMAIN tutorials : Solved(tutorials, j)
                            THEN <<M("congratulations", <<>>)>> ELSE <<>>)
            /\ pc' = "done"
            /\ index' = index
       ELSE /\ index' = saturating_add(index, 1)
            /\ out' = clear_screen \o print_tutorial_help_text(index', tutorials)
            /\ pc' = AfterPrint(index', tutorials)
    /\ calls' = <<>>
    /\ pending' = PendingAfter(tutorials, TRUE)
    /\ UNCHANGED <<tutorials, compiler_state, rt, left>>

\* variant: the end test compares index, not index + 1
OuterNext_OffByOne ==
    /\ pc = "outer"
    /\ readline' = Ok("outer", "next")
    /\ added' = add_history_entry("next")
    /\ IF index = TutorialsLen
       THEN /\ out' = clear_screen \o <<M("congratulations", <<>>)>>
            /\ pc' = "done"
            /\ index' = index
       ELSE /\ index' = saturating_add(index, 1)
            /\ out' = clear_screen \o print_tutorial_help_text(index', tutorials)
            /\ pc' = AfterPrint(index', tutorials)
    /\ calls' = <<>>
    /\ pending' = PendingAfter(tutorials, TRUE)
    /\ UNCHANGED <<tutorials, compiler_state, rt, left>>

\* "next": end after the last tutorial, or else increment the index
OuterNext ==
    /\ pc = "outer"
    /\ readline' = Ok("outer", "next")
    /\ added' = add_history_entry("next")
    /\ IF (index + 1) = TutorialsLen
       THEN /\ out' = clear_screen \o <<M("congratulations", <<>>)>>
            /\ pc' = "done"
            /\ index' = index
       ELSE /\ index' = saturating_add(index, 1)
            /\ out' = clear_screen \o print_tutorial_help_text(index', tutorials)
            /\ pc' = AfterPrint(index', tutorials)
    /\ calls' = <<>>
    /\ pending' = PendingAfter(tutorials, TRUE)
    /\ UNCHANGED <<tutorials, compiler_state, rt, left>>

\* "prev"
OuterPrev ==
    /\ pc = "outer"
    /\ readline' = Ok("outer", "prev")
    /\ added' = add_history_entry("prev")
    /\ index' = saturating_sub(index, 1)
    /\ out' = clear_screen
                \o (IF index = 0 THEN <<M("beginning", <<>>)>> ELSE <<>>)
                \o print_tutorial_help_text(index', tutorials)
    /\ pc' = AfterPrint(index', tutorials)
    /\ calls' = <<>>
    /\ pending' = PendingAfter(tutorials, FALSE)
    /\ UNCHANGED <<tutorials, compiler_state, rt, left>>

\* "docs": open_url(https://vrl.dev/{tut.docs}), then clear the screen
OuterDocs ==
    /\ pc = "outer"
    /\ readline' = Ok("outer", "docs")
    /\ added' = add_history_entry("docs")
    /\ out' = <<M("open_url", <<index>>)>> \o clear_screen
    /\ calls' = <<>>
    /\ pending' = PendingAfter(tutorials, FALSE)
    /\ UNCHANGED <<index, tutorials, compiler_state, rt, pc, left>>

\* how the call of the step before ended, when it was an error
After ==
    IF calls = <<>> \/ calls[1].res = "Ok" THEN ""
    ELSE IF calls[1].changed THEN "ErrChanged" ELSE "Err"

\* variant: a correct answer does not wait for `next`
OnOk_NoGate(event, correct_answer, result) ==
    IF event = correct_answer
    THEN IF (index + 1) = TutorialsLen
         THEN [out |-> clear_screen \o <<M("correct", <<event>>),
                                         M("congratulations", <<>>)>>,
               pc |-> "done"]
         ELSE [out |-> clear_screen \o <<M("correct", <<event>>),
                         M("progress", <<index + 1, TutorialsLen, index + 2>>)>>,
               pc |-> "outer"]
    ELSE [out |-> <<M("value", <<result>>)>>, pc |-> "outer"]

\* variant: a correct answer to the last tutorial waits for `next` too
OnOk_AlwaysGate(event, correct_answer, result) ==
    IF event = correct_answer
    THEN [out |-> clear_screen \o <<M("correct", <<event>>),
                    M("progress", <<index + 1, TutorialsLen, index + 2>>)>>,
          pc |-> "next"]
    ELSE [out |-> <<M("value", <<result>>)>>, pc |-> "outer"]

\* variant: the value of the expression is compared with the answer
OnOk_ResultCompared(event, correct_answer, result) ==
    IF result = correct_answer
    THEN IF (index + 1) = TutorialsLen
         THEN [out |-> clear_screen \o <<M("correct", <<event>>),
                                         M("congratulations", <<>>)>>,
               pc |-> "done"]
         ELSE [out |-> clear_screen \o <<M("correct", <<event>>),
                         M("progress", <<index + 1, TutorialsLen, index + 2>>)>>,
               pc |-> "next"]
    ELSE [out |-> <<M("value", <<result>>)>>, pc |-> "outer"]

\* variant: a wrong answer prints the event, not the value of the expression
OnOk_PrintsEvent(event, correct_answer, result) ==
    IF event = correct_answer
    THEN IF (index + 1) = TutorialsLen
         THEN [out |-> clear_screen \o <<M("correct", <<event>>),
                                         M("congratulations", <<>>)>>,
               pc |-> "done"]
         ELSE [out |-> clear_screen \o <<M("correct", <<event>>),
                         M("progress", <<index + 1, TutorialsLen, index + 2>>)>>,
               pc |-> "next"]
    ELSE [out |-> <<M("value", <<event>>)>>, pc |-> "outer"]

\* what the Ok(result) arm prints and where it leaves the loop
OnOk(event, correct_answer, result) ==
    IF event = correct_answer
    THEN IF (index + 1) = TutorialsLen
         THEN [out |-> clear_screen \o <<M("correct", <<event>>),
                                         M("congratulations", <<>>)>>,
               pc |-> "done"]
         ELSE [out |-> clear_screen \o <<M("correct", <<event>>),
                         M("progress", <<index + 1, TutorialsLen, index + 2>>)>>,
               pc |-> "next"]
    ELSE [out |-> <<M("value", <<result>>)>>, pc |-> "outer"]

\* variant: an error waits for `next`
OnErr_Gate == [out |-> <<M("error", <<>>)>>, pc |-> "next"]

\* variant: an error ends the session
OnErr_Break == [out |-> <<M("error", <<>>)>>, pc |-> "done"]

\* the Err(err) arm
OnErr == [out |-> <<M("error", <<>>)>>, pc |-> "outer"]

\* variant: the event is compared with the answer whatever
\* resolve_to_value returned
OuterCommand_EqFirst ==
    /\ pc = "outer"
    /\ \E command \in Lines \ {"exit", "quit", "", "help", "next", "prev", "docs"} :
       \E o \in resolve_to_value(tutorials[index].initial_event, rt, command,
                                 compiler_state) :
         LET correct_answer == tutorials[index].correct_answer
             cheat == IF command = "cheat"
                      THEN clear_screen \o <<M("value", <<correct_answer>>)>>
                      ELSE <<>>
             arm == IF o.res = "Ok" \/ o.object = correct_answer
                    THEN OnOk(o.object, correct_answer, o.value)
                    ELSE OnErr
         IN  /\ readline' = Ok("outer", command)
             /\ added' = add_history_entry(command)
             /\ tutorials' = event_after(tutorials, index, o)
             /\ rt' = o.runtime
             /\ compiler_state' = o.state
             /\ out' = cheat \o arm.out
             /\ pc' = arm.pc
             /\ calls' = <<[lesson |-> index, program |-> command,
                            res |-> o.res, value |-> o.value,
                            changed |-> o.object # tutorials[index].initial_event,
                            after |-> After]>>
             /\ left' = [left EXCEPT ![index] = o.object]
             /\ pending' = PendingAfter(tutorials', FALSE)
    /\ UNCHANGED index

\* command => ...: every other line, `cheat` included, goes to
\* resolve_to_value with the tutorial's event
OuterCommand ==
    /\ pc = "outer"
    /\ \E command \in Lines \ {"exit", "quit", "", "help", "next", "prev", "docs"} :
       \E o \in resolve_to_value(tutorials[index].initial_event, rt, command,
                                 compiler_state) :
         LET correct_answer == tutorials[index].correct_answer
             cheat == IF command = "cheat"
                      THEN clear_screen \o <<M("value", <<correct_answer>>)>>
                      ELSE <<>>
             arm == IF o.res = "Ok"
                    THEN OnOk(o.object, correct_answer, o.value)
                    ELSE OnErr
         IN  /\ readline' = Ok("outer", command)
             /\ added' = add_history_entry(command)
             /\ tutorials' = event_after(tutorials, index, o)
             /\ rt' = o.runtime
             /\ compiler_state' = o.state
             /\ out' = cheat \o arm.out
             /\ pc' = arm.pc
             /\ calls' = <<[lesson |-> index, program |-> command,
                            res |-> o.res, value |-> o.value,
                            changed |-> o.object # tutorials[index].initial_event,
                            after |-> After]>>
             /\ left' = [left EXCEPT ![index] = o.object]
             /\ pending' = PendingAfter(tutorials', FALSE)
    /\ UNCHANGED index

\* Err(ReadlineError::Interrupted) | Err(ReadlineError::Eof) => break 'outer
OuterInterrupted ==
    /\ pc = "outer"
    /\ \E e \in {"Interrupted", "Eof"} : readline' = Err("outer", e)
    /\ pc' = "done"
    /\ out' = <<>>
    /\ calls' = <<>>
    /\ pending' = PendingAfter(tutorials, FALSE)
    /\ added' = <<>>
    /\ UNCHANGED <<index, tutorials, compiler_state, rt, left>>

\* Err(err) => println!("unable to read line: {}", err); break 'outer
OuterReadError ==
    /\ pc = "outer"
    /\ readline' = Err("outer", "Io")
    /\ pc' = "done"
    /\ out' = <<M("unable to read line", <<>>)>>
    /\ calls' = <<>>
    /\ pending' = PendingAfter(tutorials, FALSE)
    /\ added' = <<>>
    /\ UNCHANGED <<index, tutorials, compiler_state, rt, left>>

\* variant: `exit` and `quit` fall into the catch-all arm of 'next
NextExit_Ignored ==
    /\ pc = "next"
    /\ \E line \in {"exit", "quit"} : readline' = Ok("next", line)
    /\ out' = <<M("unrecognized", <<>>)>>
    /\ calls' = <<>>
    /\ pending' = PendingAfter(tutorials, FALSE)
    /\ added' = <<>>
    /\ UNCHANGED <<index, tutorials, compiler_state, rt, pc, left>>

\* ---- the 'next loop, with an Editor of its own -------------------------
\* Ok(line) if line == "exit" || line == "quit" => break 'outer
NextExit ==
    /\ pc = "next"
    /\ \E line \in {"exit", "quit"} : readline' = Ok("next", line)
    /\ pc' = "done"
    /\ out' = <<>>
    /\ calls' = <<>>
    /\ pending' = PendingAfter(tutorials, FALSE)
    /\ added' = <<>>
    /\ UNCHANGED <<index, tutorials, compiler_state, rt, left>>

\* variant: the index moves on and the tutorial is not printed
NextNext_NoRender ==
    /\ pc = "next"
    /\ readline' = Ok("next", "next")
    /\ index' = saturating_add(index, 1)
    /\ out' = clear_screen
    /\ pc' = AfterPrint(index', tutorials)
    /\ calls' = <<>>
    /\ pending' = PendingAfter(tutorials, TRUE)
    /\ added' = <<>>
    /\ UNCHANGED <<tutorials, compiler_state, rt, left>>

\* variant: every tutorial starts with a fresh compiler and runtime state
NextNext_FreshState ==
    /\ pc = "next"
    /\ readline' = Ok("next", "next")
    /\ index' = saturating_add(index, 1)
    /\ out' = clear_screen \o print_tutorial_help_text(index', tutorials)
    /\ pc' = AfterPrint(index', tutorials)
    /\ calls' = <<>>
    /\ pending' = PendingAfter(tutorials, TRUE)
    /\ added' = <<>>
    /\ compiler_state' = {}
    /\ rt' = {}
    /\ UNCHANGED <<tutorials, left>>

\* Ok(line) if line == "next" => break 'next; then the index moves on
NextNext ==
    /\ pc = "next"
    /\ readline' = Ok("next", "next")
    /\ index' = saturating_add(index, 1)
    /\ out' = clear_screen \o print_tutorial_help_text(index', tutorials)
    /\ pc' = AfterPrint(index', tutorials)
    /\ calls' = <<>>
    /\ pending' = PendingAfter(tutorials, TRUE)
    /\ added' = <<>>
    /\ UNCHANGED <<tutorials, compiler_state, rt, left>>

\* variant: the catch-all arm leaves 'next as `next` does
NextOther_Advance ==
    /\ pc = "next"
    /\ \/ \E line \in Lines \ {"exit", "quit", "next"} : readline' = Ok("next", line)
       \/ \E e \in ReadlineErrors : readline' = Err("next", e)
    /\ index' = saturating_add(index, 1)
    /\ out' = <<M("unrecognized", <<>>)>> \o print_tutorial_help_text(index', tutorials)
    /\ pc' = AfterPrint(index', tutorials)
    /\ calls' = <<>>
    /\ pending' = PendingAfter(tutorials, FALSE)
    /\ added' = <<>>
    /\ UNCHANGED <<tutorials, compiler_state, rt, left>>

\* _ => "Didn't recognize that input ..."; continue
\* (every other line and every ReadlineError)
NextOther ==
    /\ pc = "next"
    /\ \/ \E line \in Lines \ {"exit", "quit", "next"} : readline' = Ok("next", line)
       \/ \E e \in ReadlineErrors : readline' = Err("next", e)
    /\ out' = <<M("unrecognized", <<>>)>>
    /\ calls' = <<>>
    /\ pending' = PendingAfter(tutorials, FALSE)
    /\ added' = <<>>
    /\ UNCHANGED <<index, tutorials, compiler_state, rt, pc, left>>

Next ==
    \/ OuterExit
    \/ OuterEmpty
    \/ OuterHelp
    \/ OuterNext
    \/ OuterPrev
    \/ OuterDocs
    \/ OuterCommand
    \/ OuterInterrupted
    \/ OuterReadError
    \/ NextExit
    \/ NextNext
    \/ NextOther

Spec == Init /\ [][Next]_vars

\* ---- names of the session states ---------------------------------------
Browsing == pc = "outer"
Gated == pc = "next"
Terminated == pc = "done"

TypeOK ==
    /\ index \in 0..MaxLen
    /\ pc \in {"outer", "next", "done", "panic"}
    /\ compiler_state \subseteq Bindings
    /\ rt \subseteq Bindings
    /\ Len(added) <= 1
    /\ Len(calls) <= 1

\* ---- the properties ------------------------------------------------------
Range(seq) == {seq[k] : k \in 1..Len(seq)}

Printed(o, kind) == \E m \in Range(o) : m.kind = kind

Called == calls # <<>>

\* C1 as stated: once a tutorial's event equals its answer, no line is
\* handed to resolve_to_value for that tutorial until a `next` is entered.
C1_GateOnceEqual ==
    [][\A j \in pending : ~(calls' # <<>> /\ calls'[1].lesson = j)]_vars

\* C1 amended: once resolve_to_value returns Ok and leaves the event of
\* tutorial index equal to its answer, the session waits in 'next (or is
\* over, after the last tutorial), and while it waits in 'next no line is
\* handed to resolve_to_value; only the line `next` leads back to 'outer.
C1_GateAfterOk ==
    [][/\ (calls' # <<>> /\ calls'[1].res = "Ok" /\ Solved(tutorials', index))
            => pc' = IF index + 1 = TutorialsLen THEN "done" ELSE "next"
       /\ Gated => /\ calls' = <<>>
                   /\ pc' = "outer" => readline' = Ok("next", "next")]_vars

\* the gate has just closed behind a correct answer
C1_Witness ==
    /\ Gated
    /\ readline.at = "outer"
    /\ Called /\ calls[1].res = "Ok"
    /\ Solved(tutorials, index)

\* C2: in 'outer and in 'next alike, when readline returns Interrupted or
\* Eof the session is over in that step and nothing is printed.
C2_InterruptEnds ==
    [][(readline'.tag = "Err" /\ readline'.line \in {"Interrupted", "Eof"})
          => (pc' = "done" /\ out' = <<>>)]_vars

\* C3: in 'outer, `next` leads to index + 1 below the last tutorial and ends
\* the session on the last one; `prev` leads to index - 1 above 0 and stays
\* at 0; no step changes the index by more than one.
C3_Ordering ==
    [][/\ (Browsing /\ readline' = Ok("outer", "next"))
            => IF index < TutorialsLen - 1
               THEN pc' = "outer" /\ index' = index + 1
               ELSE pc' = "done"
       /\ (Browsing /\ readline' = Ok("outer", "prev"))
            => /\ pc' = "outer"
               /\ index' = IF index > 0 THEN index - 1 ELSE 0
       /\ index' - index \in {-1, 0, 1}]_vars

\* `prev` on the first tutorial stayed there
C3_Witness ==
    /\ Browsing
    /\ readline = Ok("outer", "prev")
    /\ index = 0
    /\ Printed(out, "beginning")

\* C4: in 'next, every line other than `next`, `exit` and `quit` prints the
\* reminder and changes nothing: same index, still in 'next, no call of
\* resolve_to_value, same events, same compiler and runtime state, and no
\* tutorial printed.
C4_GatedRejects ==
    [][(Gated /\ readline'.tag = "Ok"
              /\ readline'.line \notin {"next", "exit", "quit"})
          => /\ out' = <<M("unrecognized", <<>>)>>
             /\ pc' = "next"
             /\ index' = index
             /\ calls' = <<>>
             /\ tutorials' = tutorials
             /\ compiler_state' = compiler_state
             /\ rt' = rt]_vars

\* a program was typed while waiting for `next`
C4_Witness ==
    /\ Gated
    /\ readline = Ok("next", ".a = 1")
    /\ out = <<M("unrecognized", <<>>)>>
    /\ Solved(tutorials, index)

\* C5: while the session runs, 0 <= index < tutorials.len(), and no
\* tutorials[index] is out of bounds.
C5_IndexInBounds ==
    pc # "done" => (pc # "panic" /\ 0 <= index /\ index < TutorialsLen)

\* `next` has led to the last of several tutorials
C5_Witness ==
    /\ Browsing
    /\ readline.line = "next"
    /\ TutorialsLen > 1
    /\ index = TutorialsLen - 1

\* C6: when resolve_to_value returns Ok and the event equals the answer,
\* the step ends by printing CORRECT with the event and then, on the last
\* tutorial, the congratulations, ending the session; otherwise the progress
\* (index + 1 of len), waiting in 'next with the same index, from where
\* `next` leads to 'outer with index + 1.
C6_SuccessPath ==
    [][/\ (Browsing /\ calls' # <<>> /\ calls'[1].res = "Ok"
                    /\ Solved(tutorials', index))
            => LET n == Len(out')
               IN  /\ n >= 3
                   /\ out'[n - 2] = M("clear", <<>>)
                   /\ out'[n - 1] = M("correct", <<tutorials'[index].initial_event>>)
                   /\ IF index + 1 = TutorialsLen
                      THEN /\ out'[n] = M("congratulations", <<>>)
                           /\ pc' = "done"
                      ELSE /\ out'[n] = M("progress", <<index + 1, TutorialsLen,
                                                        index + 2>>)
                           /\ pc' = "next"
                           /\ index' = index
       /\ (Gated /\ readline' = Ok("next", "next"))
            => pc' = "outer" /\ index' = index + 1]_vars

\* `next` has opened the gate onto the following tutorial
C6_Witness ==
    /\ Browsing
    /\ readline = Ok("next", "next")
    /\ index >= 1
    /\ Solved(tutorials, index - 1)
    /\ out = clear_screen \o print_tutorial_help_text(index, tutorials)

\* C7: `exit` and `quit` are accepted in 'outer and in 'next, and end the
\* session without a call of resolve_to_value.
C7_ExitEnds ==
    /\ [][(readline'.tag = "Ok" /\ readline'.line \in {"exit", "quit"})
             => (pc' = "done" /\ calls' = <<>>)]_vars
    /\ [](Browsing => ENABLED OuterExit)
    /\ [](Gated => ENABLED NextExit)

\* `quit` was typed while waiting for `next`
C7_Witness ==
    /\ Terminated
    /\ readline = Ok("next", "quit")
    /\ index + 1 < TutorialsLen

\* C8: when resolve_to_value returns Err the message is printed and the
\* session stays in 'outer on the same tutorial.
C8_ErrorStays ==
    [][(Browsing /\ calls' # <<>> /\ calls'[1].res = "Err")
          => /\ out'[Len(out')] = M("error", <<>>)
             /\ pc' = "outer"
             /\ index' = index]_vars

\* two failed evaluations in a row, and the session goes on
C8_Witness ==
    /\ Browsing
    /\ Called /\ calls[1].res = "Err"
    /\ calls[1].after \in {"Err", "ErrChanged"}

\* C9: `cheat` in 'outer prints the answer and nothing else happens: no
\* call of resolve_to_value, same events, same compiler and runtime state.
C9_CheatIsCommand ==
    [][(Browsing /\ readline' = Ok("outer", "cheat"))
          => /\ out' = clear_screen
                         \o <<M("value", <<tutorials[index].correct_answer>>)>>
             /\ pc' = "outer"
             /\ index' = index
             /\ calls' = <<>>
             /\ tutorials' = tutorials
             /\ compiler_state' = compiler_state
             /\ rt' = rt]_vars

\* C10: the event of every tutorial is, at every prompt, what the last
\* call of resolve_to_value on it left (also when that call failed), so
\* that is what the next call on it is handed.
C10_MutationPersists ==
    \A j \in DOMAIN tutorials : tutorials[j].initial_event = left[j]

\* a call that follows a failed call that had changed the event
C10_Witness ==
    /\ Browsing
    /\ Called
    /\ calls[1].after = "ErrChanged"

\* C11: the compiler state and the runtime state start empty and are only
\* ever touched by resolve_to_value: a step without a call leaves both as
\* they are, and no step loses a binding, so a binding made in one tutorial
\* is in the state handed to resolve_to_value in the next.
C11_StatePersists ==
    [][/\ calls' = <<>> => (compiler_state' = compiler_state /\ rt' = rt)
       /\ compiler_state \subseteq compiler_state'
       /\ rt \subseteq rt']_vars

\* `next` has opened the gate and the bindings made so far are still there
C11_Witness ==
    /\ Browsing
    /\ readline = Ok("next", "next")
    /\ index >= 1
    /\ compiler_state = {"x"}
    /\ rt = {"x"}

\* C12: when resolve_to_value returns Ok, the answer counts as correct
\* (CORRECT is printed and 'outer is left) exactly when the event equals
\* correct_answer, whatever the program and whatever value it returned.
C12_EqualityOracle ==
    [][(Browsing /\ calls' # <<>> /\ calls'[1].res = "Ok")
          => /\ Printed(out', "correct") <=> Solved(tutorials', index)
             /\ pc' # "outer" <=> Solved(tutorials', index)]_vars

\* `cheat`, run as a program, returned a value other than the event and
\* the event counted as correct
C12_Witness ==
    /\ Called
    /\ calls[1].program = "cheat"
    /\ calls[1].res = "Ok"
    /\ calls[1].value # tutorials[index].initial_event
    /\ Printed(out, "correct")

\* C13: when resolve_to_value returns Ok and the event differs from the
\* answer, the step ends by printing the returned value and the session
\* stays in 'outer on the same tutorial.
C13_WrongAnswerStays ==
    [][(Browsing /\ calls' # <<>> /\ calls'[1].res = "Ok"
                 /\ ~Solved(tutorials', index))
          => /\ out'[Len(out')] = M("value", <<calls'[1].value>>)
             /\ ~Printed(out', "correct")
             /\ pc' = "outer"
             /\ index' = index]_vars

\* the value printed is neither the answer nor the event
C13_Witness ==
    /\ Browsing
    /\ Called /\ calls[1].res = "Ok"
    /\ calls[1].program = ".a = 1"
    /\ calls[1].value # tutorials[index].correct_answer
    /\ calls[1].value # tutorials[index].initial_event
    /\ out = <<M("value", <<calls[1].value>>)>>

\* C14: in 'outer, the empty line, `help` and `docs` change nothing: same
\* index, still in 'outer, same events, same compiler and runtime state, and
\* no call of resolve_to_value.
C14_NoOps ==
    [][(Browsing /\ readline'.tag = "Ok"
                 /\ readline'.line \in {"", "help", "docs"})
          => /\ index' = index
             /\ pc' = "outer"
             /\ tutorials' = tutorials
             /\ compiler_state' = compiler_state
             /\ rt' = rt
             /\ calls' = <<>>]_vars

\* `docs` on a later tutorial
C14_Witness ==
    /\ Browsing
    /\ readline = Ok("outer", "docs")
    /\ index >= 1
    /\ out = <<M("open_url", <<index>>)>> \o clear_screen

\* C15: tutorial 0 is printed at the start; every step that changes the
\* index ends by printing the tutorial it arrives at; a tutorial a step
\* prints is the one at the new index; and no step that ends in 'next
\* prints a tutorial.
C15_Rendering ==
    /\ out[Len(out)] = M("tutorial", <<0, tutorials[0].initial_event>>)
    /\ [][/\ index' # index
               => out'[Len(out')]
                    = M("tutorial", <<index', tutorials'[index'].initial_event>>)
          /\ \A m \in Range(out') : m.kind = "tutorial" => m.args[1] = index'
          /\ Gated' => ~Printed(out', "tutorial")]_vars

\* `prev` has led back to an earlier tutorial, which is on the screen
C15_Witness ==
    /\ Browsing
    /\ readline = Ok("outer", "prev")
    /\ index + 1 < TutorialsLen
    /\ out = clear_screen \o print_tutorial_help_text(index, tutorials)

\* C16 as stated: every line read in 'outer is added to the history of rl,
\* and no line read in 'next is.
C16_EveryOuterLine ==
    [][/\ (readline'.at = "outer" /\ readline'.tag = "Ok")
            => added' = <<readline'.line>>
       /\ readline'.at = "next" => added' = <<>>]_vars

\* C16 amended: every line read in 'outer other than `exit` and `quit` is
\* given to rl.add_history_entry; `exit`, `quit` and every line read in
\* 'next are not.
C16_HistoryCalls ==
    [][/\ (readline'.at = "outer" /\ readline'.tag = "Ok"
                                  /\ readline'.line \notin {"exit", "quit"})
            => added' = <<readline'.line>>
       /\ (readline'.at = "outer" /\ readline'.tag = "Ok"
                                  /\ readline'.line \in {"exit", "quit"})
            => added' = <<>>
       /\ readline'.at = "next" => added' = <<>>]_vars

\* a command read in 'outer went to the history
C16_Witness ==
    /\ Browsing
    /\ readline = Ok("outer", "help")
    /\ added = <<"help">>

\* C17: the session waits in 'next only below the last tutorial, and it
\* gets there only from 'outer, by a step in which resolve_to_value
\* returned Ok and left the event of the current tutorial equal to its
\* answer; it does not start there.
C17_GateEntry ==
    /\ ~Gated
    /\ [](Gated => index + 1 < TutorialsLen)
    /\ [][(~Gated /\ Gated')
             => /\ Browsing
                /\ calls' # <<>> /\ calls'[1].res = "Ok"
                /\ Solved(tutorials', index)
                /\ index' = index]_vars

\* a program has solved the tutorial before the last
C17_Witness ==
    /\ Gated
    /\ readline = Ok("outer", ".a = 1")
    /\ calls[1].changed
    /\ index + 2 = TutorialsLen

\* C18: when resolve_to_value returns Err, nothing of the success path
\* happens, also when the event it left equals the answer: no CORRECT, no
\* progress, no congratulations, and the session stays in 'outer.
C18_ErrNeverSucceeds ==
    [][(Browsing /\ calls' # <<>> /\ calls'[1].res = "Err")
          => /\ ~Printed(out', "correct")
             /\ ~Printed(out', "progress")
             /\ ~Printed(out', "congratulations")
             /\ pc' = "outer"]_vars

\* a failed call has left the event of the last tutorial equal to its answer
C18_Witness ==
    /\ Browsing
    /\ Called /\ calls[1].res = "Err"
    /\ calls[1].changed
    /\ Solved(tutorials, index)
    /\ index + 1 = TutorialsLen

\* C19: no step changes an answer; a step changes an event only by a call
\* of resolve_to_value in 'outer, and then only the event of the current
\* tutorial; and `prev` prints the tutorial it leads to with the event the
\* last call on it left.
C19_OnlyCurrentEvent ==
    [][/\ DOMAIN tutorials' = DOMAIN tutorials
       /\ \A j \in DOMAIN tutorials :
            /\ tutorials'[j].correct_answer = tutorials[j].correct_answer
            /\ tutorials'[j].initial_event # tutorials[j].initial_event
                 => (j = index /\ Browsing /\ calls' # <<>>)
       /\ readline' = Ok("outer", "prev")
            => out'[Len(out')] = M("tutorial", <<index', left[index']>>)]_vars

\* a call on the second tutorial changed its event and not the first's
C19_Witness ==
    /\ Browsing
    /\ Called
    /\ index = 1
    /\ calls[1].changed
    /\ tutorials[0].initial_event # tutorials[1].initial_event

\* C20: the congratulations are printed exactly by the step that ends the
\* session from the last tutorial in 'outer, by `next` or by a correct
\* answer, and by no other step.
C20_Completion ==
    /\ ~Printed(out, "congratulations")
    /\ [][Printed(out', "congratulations")
            <=> /\ Browsing
                /\ pc' = "done"
                /\ index = TutorialsLen - 1
                /\ \/ readline' = Ok("outer", "next")
                   \/ /\ calls' # <<>>
                      /\ calls'[1].res = "Ok"
                      /\ Solved(tutorials', index)]_vars

\* `next` on the last tutorial, with no tutorial solved
C20_Witness ==
    /\ Terminated
    /\ readline = Ok("outer", "next")
    /\ Printed(out, "congratulations")
    /\ \A j \in DOMAIN tutorials : ~Solved(tutorials, j)

====
